---------------------------- MODULE Spec2Model ----------------------------
(***************************************************************************)
(* url_checker.check_url: validate the syntax of a URL, issue one HTTP GET *)
(* with redirect-following, and map the response or the raised exception   *)
(* to a pair (success, explanation).                                       *)
(*                                                                         *)
(* Text that the code inspects or builds (URLs, exception messages,        *)
(* explanations) is a sequence of one-character strings, so that lower(),  *)
(* find(), slicing, the `in` test and f-string formatting are computed.    *)
(***************************************************************************)
EXTENDS Integers, Sequences, FiniteSets, TLC

(***************************************************************************)
(* Bounds of the model.                                                    *)
(***************************************************************************)
\* number of check_url calls that may be running at once
NumCalls == 2
\* timeout argument ranges over 1..MaxTimeout (seconds)
MaxTimeout == 3
\* a response body arrives in at most MaxChunks pieces
MaxChunks == 2
\* a redirect chain that completes has at most MaxHistory hops
MaxHistory == 2

Calls == 1..NumCalls

(***************************************************************************)
(* Text helpers: str.lower, `x in s`, str.find, str(int).                  *)
(***************************************************************************)
UpperLetters == <<"A","B","C","D","E","F","G","H","I","J","K","L","M","N","O","P","Q","R","S","T","U","V","W","X","Y","Z">>
LowerLetters == <<"a","b","c","d","e","f","g","h","i","j","k","l","m","n","o","p","q","r","s","t","u","v","w","x","y","z">>
DigitChars == <<"0","1","2","3","4","5","6","7","8","9">>

Range(s) == {s[k] : k \in 1..Len(s)}

LowerChar(c) ==
    IF \E k \in 1..Len(UpperLetters) : UpperLetters[k] = c
    THEN LowerLetters[CHOOSE k \in 1..Len(UpperLetters) : UpperLetters[k] = c]
    ELSE c

\* str.lower()
Lower(s) == [k \in 1..Len(s) |-> LowerChar(s[k])]

\* `p in s` for strings
Contains(s, p) ==
    \E k \in 1..(Len(s) - Len(p) + 1) : SubSeq(s, k, k + Len(p) - 1) = p

\* str.find(c) + 1 for a single character: 0 when c does not occur
Find(s, c) ==
    IF c \in Range(s) THEN CHOOSE k \in 1..Len(s) : s[k] = c /\ \A j \in 1..(k - 1) : s[j] # c
    ELSE 0

\* str(n) for n >= 0, as an f-string formats response.status_code
RECURSIVE Str(_)
Str(n) ==
    IF n < 10 THEN <<DigitChars[n + 1]>>
    ELSE Str(n \div 10) \o <<DigitChars[(n % 10) + 1]>>

(***************************************************************************)
(* urllib.parse.urlparse, as far as check_url reads its result: whether it *)
(* raises, the scheme and the netloc.                                      *)
(***************************************************************************)
\* _WHATWG_C0_CONTROL_OR_SPACE, the members that occur in the inputs
C0ControlOrSpace == {" ", "\t", "\n", "\r"}
\* _UNSAFE_URL_BYTES_TO_REMOVE
UnsafeBytes == {"\t", "\r", "\n"}
\* scheme_chars
SchemeChars == Range(LowerLetters) \cup Range(UpperLetters) \cup Range(DigitChars) \cup {"+", "-", "."}
AsciiAlpha == Range(LowerLetters) \cup Range(UpperLetters)

RECURSIVE LStrip(_)
LStrip(s) ==
    IF s # <<>> /\ Head(s) \in C0ControlOrSpace THEN LStrip(Tail(s)) ELSE s

RemoveUnsafe(s) == SelectSeq(s, LAMBDA c : c \notin UnsafeBytes)

\* message of the ValueError urlsplit raises for unbalanced brackets
MSG_INVALID_IPV6 == <<"I","n","v","a","l","i","d"," ","I","P","v","6"," ","U","R","L">>

\* The inputs of this model never carry both "[" and "]" in the netloc, so the
\* bracketed-host check that urlsplit makes in that case is not reached.
Urlparse(u) ==
    LET cleaned == RemoveUnsafe(LStrip(u))
        colon == Find(cleaned, ":")
        hasScheme == /\ colon > 1
                     /\ cleaned[1] \in AsciiAlpha
                     /\ \A k \in 1..(colon - 1) : cleaned[k] \in SchemeChars
        scheme == IF hasScheme THEN Lower(SubSeq(cleaned, 1, colon - 1)) ELSE <<>>
        rest == IF hasScheme THEN SubSeq(cleaned, colon + 1, Len(cleaned)) ELSE cleaned
        hasNetloc == Len(rest) >= 2 /\ SubSeq(rest, 1, 2) = <<"/","/">>
        delims == {k \in 3..Len(rest) : rest[k] \in {"/", "?", "#"}}
        delim == IF delims = {} THEN Len(rest) + 1
                 ELSE CHOOSE k \in delims : \A j \in delims : k <= j
        netloc == IF hasNetloc THEN SubSeq(rest, 3, delim - 1) ELSE <<>>
        unbalanced == \/ ("[" \in Range(netloc) /\ "]" \notin Range(netloc))
                      \/ ("]" \in Range(netloc) /\ "[" \notin Range(netloc))
    IN  IF unbalanced
        THEN [raises |-> TRUE, detail |-> MSG_INVALID_IPV6, scheme |-> <<>>, netloc |-> <<>>]
        ELSE [raises |-> FALSE, detail |-> <<>>, scheme |-> scheme, netloc |-> netloc]

(***************************************************************************)
(* The value a call ends with: a returned pair, or an exception that       *)
(* leaves check_url uncaught.                                              *)
(***************************************************************************)
NoExc == [cls |-> "", msg |-> <<>>]
NoResult == [kind |-> "none", success |-> FALSE, explanation |-> <<>>, exc |-> NoExc]
Return(ok, text) == [kind |-> "return", success |-> ok, explanation |-> text, exc |-> NoExc]
Propagate(e) == [kind |-> "raise", success |-> FALSE, explanation |-> <<>>, exc |-> e]

(***************************************************************************)
(* Exception classes: the builtin ones and those of requests.exceptions,   *)
(* with their direct base classes.  An except clause catches e when the    *)
(* class of e is the named class or derives from it.                       *)
(***************************************************************************)
Bases(c) ==
    CASE c = "ConnectTimeout" -> {"ConnectionError", "Timeout"}
      [] c = "ReadTimeout" -> {"Timeout"}
      [] c = "Timeout" -> {"RequestException"}
      [] c = "SSLError" -> {"ConnectionError"}
      [] c = "ConnectionError" -> {"RequestException"}
      [] c = "TooManyRedirects" -> {"RequestException"}
      [] c = "InvalidSchema" -> {"RequestException", "ValueError"}
      [] c = "RequestException" -> {"OSError"}
      [] c = "OSError" -> {"Exception"}
      [] c = "ValueError" -> {"Exception"}
      [] c = "RuntimeError" -> {"Exception"}
      [] OTHER -> {}

RECURSIVE IsInstance(_, _)
IsInstance(c, base) == c = base \/ \E p \in Bases(c) : IsInstance(p, base)

(***************************************************************************)
(* Explanations.                                                           *)
(***************************************************************************)
MSG_MISSING_PROTOCOL == <<"I","n","v","a","l","i","d"," ","U","R","L",":"," ","M","i","s","s","i","n","g"," ","p","r","o","t","o","c","o","l"," ","(","h","t","t","p",":","/","/"," ","o","r"," ","h","t","t","p","s",":","/","/",")">>
MSG_MALFORMED == <<"I","n","v","a","l","i","d"," ","U","R","L",":"," ","M","a","l","f","o","r","m","e","d"," ","U","R","L"," ","f","o","r","m","a","t">>
MSG_UNSUPPORTED_PREFIX == <<"I","n","v","a","l","i","d"," ","U","R","L",":"," ","U","n","s","u","p","p","o","r","t","e","d"," ","p","r","o","t","o","c","o","l"," ","'">>
MSG_INVALID_FORMAT_PREFIX == <<"I","n","v","a","l","i","d"," ","U","R","L"," ","f","o","r","m","a","t",":"," ">>
MSG_REDIRECTS_PREFIX == <<"R","e","d","i","r","e","c","t","s"," ","t","o"," ">>
MSG_404 == <<"4","0","4"," ","N","o","t"," ","F","o","u","n","d">>
MSG_HTTP_PREFIX == <<"H","T","T","P"," ">>
MSG_HTTP_SUFFIX == <<" ","e","r","r","o","r">>
MSG_ACCESSIBLE == <<"U","R","L"," ","i","s"," ","a","c","c","e","s","s","i","b","l","e">>
MSG_TIMEOUT == <<"C","o","n","n","e","c","t","i","o","n"," ","t","i","m","e","o","u","t",":"," ","R","e","q","u","e","s","t"," ","t","o","o","k"," ","t","o","o"," ","l","o","n","g"," ","t","o"," ","r","e","s","p","o","n","d">>
MSG_DNS == <<"D","N","S"," ","r","e","s","o","l","u","t","i","o","n"," ","f","a","i","l","e","d",":"," ","U","n","a","b","l","e"," ","t","o"," ","r","e","s","o","l","v","e"," ","d","o","m","a","i","n"," ","n","a","m","e">>
MSG_REFUSED == <<"C","o","n","n","e","c","t","i","o","n"," ","r","e","f","u","s","e","d",":"," ","S","e","r","v","e","r"," ","i","s"," ","n","o","t"," ","a","c","c","e","p","t","i","n","g"," ","c","o","n","n","e","c","t","i","o","n","s">>
MSG_NETWORK == <<"N","e","t","w","o","r","k"," ","c","o","n","n","e","c","t","i","o","n"," ","e","r","r","o","r",":"," ","U","n","a","b","l","e"," ","t","o"," ","c","o","n","n","e","c","t"," ","t","o"," ","s","e","r","v","e","r">>
MSG_TOO_MANY_REDIRECTS == <<"T","o","o"," ","m","a","n","y"," ","r","e","d","i","r","e","c","t","s">>
MSG_REQUEST_ERROR_PREFIX == <<"R","e","q","u","e","s","t"," ","e","r","r","o","r",":"," ">>
MSG_UNEXPECTED_PREFIX == <<"U","n","e","x","p","e","c","t","e","d"," ","e","r","r","o","r",":"," ">>

SCHEME_HTTP == <<"h","t","t","p">>
SCHEME_HTTPS == <<"h","t","t","p","s">>
DNS_PHRASE_NODENAME == <<"n","o","d","e","n","a","m","e"," ","n","o","r"," ","s","e","r","v","n","a","m","e"," ","p","r","o","v","i","d","e","d">>
DNS_PHRASE_NAME == <<"n","a","m","e"," ","o","r"," ","s","e","r","v","i","c","e"," ","n","o","t"," ","k","n","o","w","n">>
DNS_PHRASE_GETADDRINFO == <<"g","e","t","a","d","d","r","i","n","f","o"," ","f","a","i","l","e","d">>
REFUSED_PHRASE == <<"c","o","n","n","e","c","t","i","o","n"," ","r","e","f","u","s","e","d">>

BROWSER_UA == "Mozilla/5.0 (Windows NT 10.0; Win64; x64) AppleWebKit/537.36 (KHTML, like Gecko) Chrome/120.0.0.0 Safari/537.36"
\* what the HTTP client sends when check_url sets no User-Agent
CLIENT_DEFAULT_UA == "python-requests"

(***************************************************************************)
(* Lines 22-32: the validation block.  passed = TRUE when the block falls  *)
(* through to the header preparation.                                      *)
(***************************************************************************)
ValidateUrlSchemeBeforeNetloc(u) ==
    LET parsed == Urlparse(u)
    IN  IF parsed.raises
        THEN [passed |-> FALSE, exc |-> [cls |-> "ValueError", msg |-> parsed.detail],
              result |-> Return(FALSE, MSG_INVALID_FORMAT_PREFIX \o parsed.detail)]
        ELSE IF parsed.scheme = <<>>
        THEN [passed |-> FALSE, exc |-> NoExc, result |-> Return(FALSE, MSG_MISSING_PROTOCOL)]
        ELSE IF parsed.scheme \notin {SCHEME_HTTP, SCHEME_HTTPS}
        THEN [passed |-> FALSE, exc |-> NoExc,
              result |-> Return(FALSE, MSG_UNSUPPORTED_PREFIX \o parsed.scheme \o <<"'">>)]
        ELSE IF parsed.netloc = <<>>
        THEN [passed |-> FALSE, exc |-> NoExc, result |-> Return(FALSE, MSG_MALFORMED)]
        ELSE [passed |-> TRUE, exc |-> NoExc, result |-> NoResult]

ValidateUrlNoSchemeCheck(u) ==
    LET parsed == Urlparse(u)
    IN  IF parsed.raises
        THEN [passed |-> FALSE, exc |-> [cls |-> "ValueError", msg |-> parsed.detail],
              result |-> Return(FALSE, MSG_INVALID_FORMAT_PREFIX \o parsed.detail)]
        ELSE IF parsed.scheme = <<>>
        THEN [passed |-> FALSE, exc |-> NoExc, result |-> Return(FALSE, MSG_MISSING_PROTOCOL)]
        ELSE IF parsed.netloc = <<>>
        THEN [passed |-> FALSE, exc |-> NoExc, result |-> Return(FALSE, MSG_MALFORMED)]
        ELSE [passed |-> TRUE, exc |-> NoExc, result |-> NoResult]

ValidateUrl(u) ==
    LET parsed == Urlparse(u)
    IN  IF parsed.raises
        THEN [passed |-> FALSE, exc |-> [cls |-> "ValueError", msg |-> parsed.detail],
              result |-> Return(FALSE, MSG_INVALID_FORMAT_PREFIX \o parsed.detail)]
        ELSE IF parsed.scheme = <<>>
        THEN [passed |-> FALSE, exc |-> NoExc, result |-> Return(FALSE, MSG_MISSING_PROTOCOL)]
        ELSE IF parsed.netloc = <<>>
        THEN [passed |-> FALSE, exc |-> NoExc, result |-> Return(FALSE, MSG_MALFORMED)]
        ELSE IF parsed.scheme \notin {SCHEME_HTTP, SCHEME_HTTPS}
        THEN [passed |-> FALSE, exc |-> NoExc,
              result |-> Return(FALSE, MSG_UNSUPPORTED_PREFIX \o parsed.scheme \o <<"'">>)]
        ELSE [passed |-> TRUE, exc |-> NoExc, result |-> NoResult]

(***************************************************************************)
(* Lines 34-37: the headers dict.  A dict is the set of its (key, value)   *)
(* pairs.                                                                  *)
(***************************************************************************)
BuildHeadersAlways(flag) == {<<"User-Agent", BROWSER_UA>>}

BuildHeaders(flag) == IF flag THEN {<<"User-Agent", BROWSER_UA>>} ELSE {}

(***************************************************************************)
(* Lines 43-54: classification of an obtained response.                    *)
(***************************************************************************)
ClassifyResponseStatusFirst(resp) ==
    IF resp.status_code = 404 THEN Return(FALSE, MSG_404)
    ELSE IF 400 <= resp.status_code /\ resp.status_code < 600
    THEN Return(FALSE, MSG_HTTP_PREFIX \o Str(resp.status_code) \o MSG_HTTP_SUFFIX)
    ELSE IF resp.history # <<>> THEN Return(TRUE, MSG_REDIRECTS_PREFIX \o resp.url)
    ELSE Return(TRUE, MSG_ACCESSIBLE)

ClassifyResponseClientErrorsOnly(resp) ==
    IF resp.history # <<>> THEN Return(TRUE, MSG_REDIRECTS_PREFIX \o resp.url)
    ELSE IF resp.status_code = 404 THEN Return(FALSE, MSG_404)
    ELSE IF 400 <= resp.status_code /\ resp.status_code < 500
    THEN Return(FALSE, MSG_HTTP_PREFIX \o Str(resp.status_code) \o MSG_HTTP_SUFFIX)
    ELSE Return(TRUE, MSG_ACCESSIBLE)

ClassifyResponse(resp) ==
    IF resp.history # <<>> THEN Return(TRUE, MSG_REDIRECTS_PREFIX \o resp.url)
    ELSE IF resp.status_code = 404 THEN Return(FALSE, MSG_404)
    ELSE IF 400 <= resp.status_code /\ resp.status_code < 600
    THEN Return(FALSE, MSG_HTTP_PREFIX \o Str(resp.status_code) \o MSG_HTTP_SUFFIX)
    ELSE Return(TRUE, MSG_ACCESSIBLE)

(***************************************************************************)
(* Lines 56-75: the except clauses around the request, tried in order.     *)
(***************************************************************************)
ConnectionErrorResult(e) ==
    LET error_msg == Lower(e.msg)
    IN  IF \/ Contains(error_msg, DNS_PHRASE_NODENAME)
           \/ Contains(error_msg, DNS_PHRASE_NAME)
           \/ Contains(error_msg, DNS_PHRASE_GETADDRINFO)
        THEN Return(FALSE, MSG_DNS)
        ELSE IF Contains(error_msg, REFUSED_PHRASE) THEN Return(FALSE, MSG_REFUSED)
        ELSE Return(FALSE, MSG_NETWORK)

HandleRequestExceptionConnectionFirst(e) ==
    IF IsInstance(e.cls, "ConnectionError") THEN ConnectionErrorResult(e)
    ELSE IF IsInstance(e.cls, "Timeout") THEN Return(FALSE, MSG_TIMEOUT)
    ELSE IF IsInstance(e.cls, "TooManyRedirects") THEN Return(FALSE, MSG_TOO_MANY_REDIRECTS)
    ELSE IF IsInstance(e.cls, "RequestException")
    THEN Return(FALSE, MSG_REQUEST_ERROR_PREFIX \o e.msg)
    ELSE IF IsInstance(e.cls, "Exception") THEN Return(FALSE, MSG_UNEXPECTED_PREFIX \o e.msg)
    ELSE Propagate(e)

HandleRequestExceptionNoCatchAll(e) ==
    IF IsInstance(e.cls, "Timeout") THEN Return(FALSE, MSG_TIMEOUT)
    ELSE IF IsInstance(e.cls, "ConnectionError") THEN ConnectionErrorResult(e)
    ELSE IF IsInstance(e.cls, "TooManyRedirects") THEN Return(FALSE, MSG_TOO_MANY_REDIRECTS)
    ELSE IF IsInstance(e.cls, "RequestException")
    THEN Return(FALSE, MSG_REQUEST_ERROR_PREFIX \o e.msg)
    ELSE Propagate(e)

HandleRequestException(e) ==
    IF IsInstance(e.cls, "Timeout") THEN Return(FALSE, MSG_TIMEOUT)
    ELSE IF IsInstance(e.cls, "ConnectionError") THEN ConnectionErrorResult(e)
    ELSE IF IsInstance(e.cls, "TooManyRedirects") THEN Return(FALSE, MSG_TOO_MANY_REDIRECTS)
    ELSE IF IsInstance(e.cls, "RequestException")
    THEN Return(FALSE, MSG_REQUEST_ERROR_PREFIX \o e.msg)
    ELSE IF IsInstance(e.cls, "Exception") THEN Return(FALSE, MSG_UNEXPECTED_PREFIX \o e.msg)
    ELSE Propagate(e)

(***************************************************************************)
(* The environment of a call: what the HTTP client meets when it sends the *)
(* request.  error: the client raises it at once (DNS failure, refusal,    *)
(* redirect limit, ...).  accepts: the server accepts the connection.      *)
(* gaps: the seconds of silence before each piece of the response.  The    *)
(* timeout handed to the client bounds each wait on the socket - the       *)
(* connect and every single read - not the request as a whole.  history,   *)
(* status, final_url: the redirect hops followed and the final response.   *)
(* blocks_bots: the server answers 403 unless the User-Agent is a          *)
(* browser's.                                                              *)
(***************************************************************************)
EXC_MSG_DNS_LINUX == <<"[","E","r","r","n","o"," ","-","2","]"," ","N","a","m","e"," ","o","r"," ","s","e","r","v","i","c","e"," ","n","o","t"," ","k","n","o","w","n">>
EXC_MSG_DNS_MAC == <<"[","E","r","r","n","o"," ","8","]"," ","n","o","d","e","n","a","m","e"," ","n","o","r"," ","s","e","r","v","n","a","m","e"," ","p","r","o","v","i","d","e","d",","," ","o","r"," ","n","o","t"," ","k","n","o","w","n">>
EXC_MSG_DNS_WINDOWS == <<"[","E","r","r","n","o"," ","1","1","0","0","1","]"," ","g","e","t","a","d","d","r","i","n","f","o"," ","f","a","i","l","e","d">>
EXC_MSG_REFUSED == <<"[","E","r","r","n","o"," ","1","1","1","]"," ","C","o","n","n","e","c","t","i","o","n"," ","r","e","f","u","s","e","d">>
EXC_MSG_DNS_AND_REFUSED == <<"C","o","n","n","e","c","t","i","o","n"," ","r","e","f","u","s","e","d"," ","a","f","t","e","r"," ","g","e","t","a","d","d","r","i","n","f","o"," ","f","a","i","l","e","d">>
EXC_MSG_RESET == <<"C","o","n","n","e","c","t","i","o","n"," ","a","b","o","r","t","e","d",".">>
EXC_MSG_CONNECT_TIMEOUT == <<"C","o","n","n","e","c","t","i","o","n"," ","t","o"," ","h","o","s","t"," ","t","i","m","e","d"," ","o","u","t",".">>
EXC_MSG_READ_TIMEOUT == <<"R","e","a","d"," ","t","i","m","e","d"," ","o","u","t",".">>

ExcMessages ==
    {EXC_MSG_DNS_LINUX, EXC_MSG_DNS_MAC, EXC_MSG_DNS_WINDOWS, EXC_MSG_REFUSED,
     EXC_MSG_DNS_AND_REFUSED, EXC_MSG_RESET, <<>>}

ExcClasses ==
    {"ConnectTimeout", "ReadTimeout", "Timeout", "SSLError", "ConnectionError",
     "TooManyRedirects", "InvalidSchema", "RequestException", "ValueError", "RuntimeError"}

StatusCodes == {100, 200, 204, 299, 300, 304, 399, 400, 403, 404, 500, 599, 600}

FINAL_URL == <<"h","t","t","p","s",":","/","/","b","/">>

Histories == {[k \in 1..n |-> 301] : n \in 0..MaxHistory}

GapSeqs == UNION {[1..n -> 1..MaxTimeout] : n \in 1..MaxChunks}

Profile(e, acc, g, h, st, bb) ==
    [error |-> e, accepts |-> acc, gaps |-> g, history |-> h, status |-> st,
     blocks_bots |-> bb, final_url |-> FINAL_URL]

RespondingProfiles ==
    {Profile(NoExc, TRUE, <<>>, h, st, bb) : h \in Histories, st \in StatusCodes, bb \in BOOLEAN}
SlowProfiles == {Profile(NoExc, TRUE, g, <<>>, 200, FALSE) : g \in GapSeqs}
SilentProfiles == {Profile(NoExc, FALSE, <<>>, <<>>, 200, FALSE)}
RaisingProfiles ==
    {Profile([cls |-> c, msg |-> m], FALSE, <<>>, <<>>, 200, FALSE) : c \in ExcClasses, m \in ExcMessages}

Profiles == RespondingProfiles \cup SlowProfiles \cup SilentProfiles \cup RaisingProfiles

Timeouts == 1..MaxTimeout

Urls ==
    {<<>>, <<"n","o","t","-","a","-","v","a","l","i","d","-","u","r","l">>, <<"w","w","w",".","g","o","o","g","l","e",".","c","o","m">>, <<"h","t","t","p",":","/","/","a">>, <<"h","t","t","p","s",":","/","/","a">>,
     <<"H","T","T","P",":","/","/","a">>, <<"h","t","t","p",":","/","/","a","/","p">>, <<"h","t","t","p",":","a">>, <<"h","t","t","p",":","/","a">>, <<"h","t","t","p",":","/","/">>, <<"h","t","t","p",":","/","/","/","p">>,
     <<"f","t","p",":","/","/","a">>, <<"f","t","p",":","a">>, <<"/","/","a">>, <<"/","/","[","a">>, <<"h","t","t","p",":","/","/","[","a">>, <<"f","t","p",":","/","/","a","]">>, <<":","/","/","a">>,
     <<"1","h","t","t","p",":","/","/","a">>, <<"h","t"," ","t","p",":","/","/","a">>, <<" ","h","t","t","p",":","/","/","a">>, <<"h","t","\t","t","p",":","/","/","a">>, <<"a",":","8","0">>,
     <<"h","t","t","p",":","/","/","a","?","q">>, <<"h","t","t","p",":","/","/","#","f">>, <<"h","t","t","p","s",":","/","/","a",".","b",":","8","/","p">>, <<"f","i","l","e",":","/","/","/","p">>}

(***************************************************************************)
(* State.  Every variable is indexed by the call: the code keeps all of it *)
(* in arguments and locals of check_url.                                   *)
(***************************************************************************)
VARIABLES
    pc,                 \* position of each call
    url,                \* argument url
    timeout,            \* argument timeout
    use_browser_agent,  \* argument use_browser_agent
    headers,            \* local headers
    requests,           \* the requests.get calls made so far, in order
    server,             \* what the request of the call meets
    chunk,              \* pieces of the response received so far
    elapsed,            \* seconds the request has been running
    response,           \* local response
    raised,             \* the exception caught by the call, if any
    result              \* how the call ended

vars == <<pc, url, timeout, use_browser_agent, headers, requests, server, chunk,
          elapsed, response, raised, result>>

NoResponse == [history |-> <<>>, status_code |-> 0, url |-> <<>>]

UserAgentOf(req) ==
    IF \E h \in req.headers : h[1] = "User-Agent"
    THEN (CHOOSE h \in req.headers : h[1] = "User-Agent")[2]
    ELSE CLIENT_DEFAULT_UA

\* the response the client hands back once the exchange has completed
ResponseOf(srv, req) ==
    [history |-> srv.history,
     status_code |-> IF srv.blocks_bots /\ UserAgentOf(req) # BROWSER_UA THEN 403 ELSE srv.status,
     url |-> IF srv.history = <<>> THEN req.url ELSE srv.final_url]

\* line 41: the arguments of requests.get
GetRequest(i) ==
    [method |-> "GET", url |-> url[i], timeout |-> timeout[i], allow_redirects |-> TRUE,
     headers |-> headers[i]]

\* a return statement of check_url; a failed attempt made again is the retry
\* the code does not have
FinishRetrying(i, r) ==
    IF ~r.success /\ Len(requests[i]) < 2
    THEN pc' = [pc EXCEPT ![i] = "request"] /\ UNCHANGED result
    ELSE pc' = [pc EXCEPT ![i] = "done"] /\ result' = [result EXCEPT ![i] = r]

Finish(i, r) ==
    /\ pc' = [pc EXCEPT ![i] = "done"]
    /\ result' = [result EXCEPT ![i] = r]

\* requests.get raises e inside the try block of line 40
Raise(i, e) ==
    /\ raised' = [raised EXCEPT ![i] = e]
    /\ Finish(i, HandleRequestException(e))

\* lines 22-32
Validate(i) ==
    /\ pc[i] = "validate"
    /\ LET v == ValidateUrl(url[i])
       IN  /\ raised' = [raised EXCEPT ![i] = v.exc]
           /\ IF v.passed
              THEN pc' = [pc EXCEPT ![i] = "headers"] /\ UNCHANGED result
              ELSE pc' = [pc EXCEPT ![i] = "done"] /\ result' = [result EXCEPT ![i] = v.result]
    /\ UNCHANGED <<url, timeout, use_browser_agent, headers, requests, server, chunk,
                   elapsed, response>>

\* a headers dict kept at module level and filled in place would be seen by
\* every call
PrepareHeadersShared(i) ==
    /\ pc[i] = "headers"
    /\ headers' = IF use_browser_agent[i]
                  THEN [j \in Calls |-> BuildHeaders(TRUE)]
                  ELSE headers
    /\ pc' = [pc EXCEPT ![i] = "request"]
    /\ UNCHANGED <<url, timeout, use_browser_agent, requests, server, chunk, elapsed,
                   response, raised, result>>

\* lines 34-37
PrepareHeaders(i) ==
    /\ pc[i] = "headers"
    /\ headers' = [headers EXCEPT ![i] = BuildHeaders(use_browser_agent[i])]
    /\ pc' = [pc EXCEPT ![i] = "request"]
    /\ UNCHANGED <<url, timeout, use_browser_agent, requests, server, chunk, elapsed,
                   response, raised, result>>

\* line 41, up to the connection: the client sends the request; it raises at
\* once, or waits timeout seconds for a connection that is never accepted,
\* or connects
IssueRequest(i) ==
    /\ pc[i] = "request"
    /\ requests' = [requests EXCEPT ![i] = Append(@, GetRequest(i))]
    /\ chunk' = [chunk EXCEPT ![i] = 0]
    /\ IF server[i].error # NoExc
       THEN Raise(i, server[i].error) /\ UNCHANGED elapsed
       ELSE IF ~server[i].accepts
       THEN /\ elapsed' = [elapsed EXCEPT ![i] = @ + timeout[i]]
            /\ Raise(i, [cls |-> "ConnectTimeout", msg |-> EXC_MSG_CONNECT_TIMEOUT])
       ELSE /\ pc' = [pc EXCEPT ![i] = "reading"]
            /\ UNCHANGED <<elapsed, raised, result>>
    /\ UNCHANGED <<url, timeout, use_browser_agent, headers, server, response>>

\* line 41, reading: the next piece arrives after its gap, unless the gap
\* reaches the timeout first
Receive(i) ==
    /\ pc[i] = "reading"
    /\ chunk[i] < Len(server[i].gaps)
    /\ LET gap == server[i].gaps[chunk[i] + 1]
       IN  IF gap >= timeout[i]
           THEN /\ elapsed' = [elapsed EXCEPT ![i] = @ + timeout[i]]
                /\ Raise(i, [cls |-> "ReadTimeout", msg |-> EXC_MSG_READ_TIMEOUT])
                /\ UNCHANGED chunk
           ELSE /\ elapsed' = [elapsed EXCEPT ![i] = @ + gap]
                /\ chunk' = [chunk EXCEPT ![i] = @ + 1]
                /\ UNCHANGED <<pc, raised, result>>
    /\ UNCHANGED <<url, timeout, use_browser_agent, headers, requests, server, response>>

\* lines 41-54: requests.get returns the response and it is classified
Complete(i) ==
    /\ pc[i] = "reading"
    /\ chunk[i] = Len(server[i].gaps)
    /\ LET resp == ResponseOf(server[i], requests[i][Len(requests[i])])
       IN  /\ response' = [response EXCEPT ![i] = resp]
           /\ Finish(i, ClassifyResponse(resp))
    /\ UNCHANGED <<url, timeout, use_browser_agent, headers, requests, server, chunk,
                   elapsed, raised>>

Step(i) == Validate(i) \/ PrepareHeaders(i) \/ IssueRequest(i) \/ Receive(i) \/ Complete(i)

Next == \E i \in Calls : Step(i)

\* locals and bookkeeping of calls at their entry
InitLocals ==
    /\ headers = [i \in Calls |-> {}]
    /\ requests = [i \in Calls |-> <<>>]
    /\ chunk = [i \in Calls |-> 0]
    /\ elapsed = [i \in Calls |-> 0]
    /\ response = [i \in Calls |-> NoResponse]
    /\ raised = [i \in Calls |-> NoExc]
    /\ result = [i \in Calls |-> NoResult]

\* one call of check_url, with any arguments, meeting any environment
Init ==
    /\ \E u \in Urls, t \in Timeouts, f \in BOOLEAN, s \in Profiles :
          /\ url = [i \in Calls |-> IF i = 1 THEN u ELSE <<>>]
          /\ timeout = [i \in Calls |-> IF i = 1 THEN t ELSE 1]
          /\ use_browser_agent = [i \in Calls |-> IF i = 1 THEN f ELSE FALSE]
          /\ server = [i \in Calls |-> IF i = 1 THEN s ELSE Profile(NoExc, FALSE, <<>>, <<>>, 200, FALSE)]
    /\ pc = [i \in Calls |-> IF i = 1 THEN "validate" ELSE "idle"]
    /\ InitLocals

Spec == Init /\ [][Next]_vars

(***************************************************************************)
(* Several calls running at once, their steps interleaved in any order.    *)
(***************************************************************************)
URL_A == <<"h","t","t","p",":","/","/","a">>
URL_NO_SCHEME == <<"w","w","w",".","b">>
ConcUrls == {URL_A, URL_NO_SCHEME}
ConcTimeouts == {1, MaxTimeout}
BOT_BLOCKING == Profile(NoExc, TRUE, <<>>, <<>>, 200, TRUE)
ONE_SECOND_LATE == Profile(NoExc, TRUE, <<1>>, <<>>, 404, FALSE)
REFUSING == Profile([cls |-> "ConnectionError", msg |-> EXC_MSG_REFUSED], FALSE, <<>>, <<>>, 200, FALSE)
ConcProfiles == {BOT_BLOCKING, ONE_SECOND_LATE, REFUSING}

ConcInit ==
    /\ url \in [Calls -> ConcUrls]
    /\ timeout \in [Calls -> ConcTimeouts]
    /\ use_browser_agent \in [Calls -> BOOLEAN]
    /\ server \in [Calls -> ConcProfiles]
    /\ pc = [i \in Calls |-> "validate"]
    /\ InitLocals

ConcSpec == ConcInit /\ [][Next]_vars

(***************************************************************************)
(* Properties.                                                             *)
(***************************************************************************)
Done(i) == pc[i] = "done"
StartsWith(s, p) == Len(s) >= Len(p) /\ SubSeq(s, 1, Len(p)) = p
ValidationPasses(u) ==
    LET parsed == Urlparse(u)
    IN  /\ ~parsed.raises
        /\ parsed.scheme \in {SCHEME_HTTP, SCHEME_HTTPS}
        /\ parsed.netloc # <<>>

\* C1: check_url is total.  Whatever the url, the timeout, the flag and the
\* behaviour of the HTTP client (a response or a raised exception), no
\* exception leaves the call, a call that has not ended can take its next
\* step, and a call that has ended has returned a pair (success, explanation)
\* with a non-empty explanation; when an exception was raised on the way,
\* success is False.
C1_Total ==
    \A i \in Calls :
        /\ result[i].kind # "raise"
        /\ pc[i] \notin {"done", "idle"} =>
              /\ pc[i] \in {"validate", "headers", "request", "reading"}
              /\ pc[i] = "reading" => chunk[i] <= Len(server[i].gaps)
        /\ Done(i) =>
              /\ result[i].kind = "return"
              /\ result[i].success \in BOOLEAN
              /\ Len(result[i].explanation) > 0
              /\ (raised[i] # NoExc => result[i].success = FALSE)

\* a call whose request raised an exception that only the last clause catches
C1_Witness ==
    \E i \in Calls :
        /\ Done(i)
        /\ raised[i] = [cls |-> "RuntimeError", msg |-> <<>>]
        /\ result[i] = Return(FALSE, MSG_UNEXPECTED_PREFIX)

\* C2: validation applies four checks in a fixed order and the first one
\* violated alone determines the result: parsing raises, then empty scheme,
\* then empty netloc, then scheme other than http and https.  An input
\* without scheme, with an unsupported scheme or unparseable ends with
\* success False and an explanation containing "invalid" in any case.
C2_ValidationOrder ==
    \A i \in Calls :
        pc[i] \notin {"validate", "idle"} =>
            LET parsed == Urlparse(url[i])
            IN  /\ parsed.raises =>
                      result[i] = Return(FALSE, MSG_INVALID_FORMAT_PREFIX \o parsed.detail)
                /\ ~parsed.raises /\ parsed.scheme = <<>> =>
                      result[i] = Return(FALSE, MSG_MISSING_PROTOCOL)
                /\ ~parsed.raises /\ parsed.scheme # <<>> /\ parsed.netloc = <<>> =>
                      result[i] = Return(FALSE, MSG_MALFORMED)
                /\ /\ ~parsed.raises /\ parsed.scheme # <<>> /\ parsed.netloc # <<>>
                   /\ parsed.scheme \notin {SCHEME_HTTP, SCHEME_HTTPS}
                   => result[i] = Return(FALSE, MSG_UNSUPPORTED_PREFIX \o parsed.scheme \o <<"'">>)
                /\ \/ parsed.raises
                   \/ parsed.scheme = <<>>
                   \/ parsed.scheme \notin {SCHEME_HTTP, SCHEME_HTTPS}
                   => /\ Done(i)
                      /\ result[i].success = FALSE
                      /\ Contains(Lower(result[i].explanation), <<"i","n","v","a","l","i","d">>)

\* an input that has an unsupported scheme and no netloc gets the message of
\* the earlier check
C2_Witness ==
    \E i \in Calls :
        /\ url[i] = <<"f","t","p",":","a">>
        /\ Done(i)
        /\ result[i] = Return(FALSE, MSG_MALFORMED)

C3_Outcome(k, resp) ==
    CASE k = 1 -> Return(TRUE, MSG_REDIRECTS_PREFIX \o resp.url)
      [] k = 2 -> Return(FALSE, MSG_404)
      [] k = 3 -> Return(FALSE, MSG_HTTP_PREFIX \o Str(resp.status_code) \o MSG_HTTP_SUFFIX)
      [] k = 4 -> Return(TRUE, MSG_ACCESSIBLE)

\* C3: an obtained response is classified by priority: redirects followed ->
\* (True, "Redirects to <final URL>") whatever the final status; else 404 ->
\* (False, "404 Not Found"); else status in [400, 600) -> (False, "HTTP <code>
\* error"); else (True, "URL is accessible").  Exactly one of the four
\* outcomes is returned.
C3_Classification ==
    \A i \in Calls :
        response[i] # NoResponse =>
            LET resp == response[i]
                redirected == resp.history # <<>>
                code == resp.status_code
            IN  /\ Done(i)
                /\ redirected => result[i] = C3_Outcome(1, resp)
                /\ ~redirected /\ code = 404 => result[i] = C3_Outcome(2, resp)
                /\ ~redirected /\ code # 404 /\ code >= 400 /\ code < 600 =>
                      result[i] = C3_Outcome(3, resp)
                /\ ~redirected /\ (code < 400 \/ code >= 600) => result[i] = C3_Outcome(4, resp)
                /\ Cardinality({k \in 1..4 : result[i] = C3_Outcome(k, resp)}) = 1
                /\ ~redirected /\ code = 500 => result[i].explanation = <<"H","T","T","P"," ","5","0","0"," ","e","r","r","o","r">>

\* a redirect chain that ends in a 404 is reported as a success
C3_Witness ==
    \E i \in Calls :
        /\ Done(i)
        /\ response[i].history # <<>>
        /\ response[i].status_code = 404
        /\ result[i] = Return(TRUE, MSG_REDIRECTS_PREFIX \o FINAL_URL)

\* C4 as stated: success is True only for a response reached through
\* redirects or a non-redirected response with a status in 200-299.
C4_SuccessOnly2xx ==
    \A i \in Calls :
        Done(i) /\ result[i].success =>
            /\ response[i] # NoResponse
            /\ \/ response[i].history # <<>>
               \/ (response[i].status_code >= 200 /\ response[i].status_code <= 299)

\* C4, amended: success is True only for a response reached through
\* redirects or a non-redirected response with a status outside [400, 600);
\* a non-redirected 1xx, 3xx or status >= 600 is a success.
C4_SuccessOnlyOutside4xx5xx ==
    \A i \in Calls :
        /\ Done(i) /\ result[i].success =>
              /\ response[i] # NoResponse
              /\ \/ response[i].history # <<>>
                 \/ ~(response[i].status_code >= 400 /\ response[i].status_code < 600)
        /\ /\ Done(i) /\ response[i] # NoResponse /\ response[i].history = <<>>
           /\ response[i].status_code \in {100, 304, 600}
           => result[i] = Return(TRUE, MSG_ACCESSIBLE)

\* a 304 that was not followed is reported accessible
C4_Witness ==
    \E i \in Calls :
        /\ Done(i)
        /\ response[i].history = <<>>
        /\ response[i].status_code = 304
        /\ result[i] = Return(TRUE, MSG_ACCESSIBLE)

C5_TimeoutKinds == {"Timeout", "ConnectTimeout", "ReadTimeout"}
C5_ConnectionKinds == {"ConnectionError", "SSLError", "ConnectTimeout"}
C5_RequestKinds == {"RequestException", "InvalidSchema"}
C5_IsDns(m) ==
    \/ Contains(m, DNS_PHRASE_NODENAME)
    \/ Contains(m, DNS_PHRASE_NAME)
    \/ Contains(m, DNS_PHRASE_GETADDRINFO)
C5_Expected(e) ==
    LET m == Lower(e.msg)
    IN  IF e.cls \in C5_TimeoutKinds THEN MSG_TIMEOUT
        ELSE IF e.cls \in C5_ConnectionKinds /\ C5_IsDns(m) THEN MSG_DNS
        ELSE IF e.cls \in C5_ConnectionKinds /\ Contains(m, REFUSED_PHRASE) THEN MSG_REFUSED
        ELSE IF e.cls \in C5_ConnectionKinds THEN MSG_NETWORK
        ELSE IF e.cls = "TooManyRedirects" THEN MSG_TOO_MANY_REDIRECTS
        ELSE IF e.cls \in C5_RequestKinds THEN MSG_REQUEST_ERROR_PREFIX \o e.msg
        ELSE MSG_UNEXPECTED_PREFIX \o e.msg

\* C5: when the HTTP client raises, the error is mapped to one failure result
\* by priority: timeout; connection error with a name-resolution phrase in
\* its lowercased message; connection error with "connection refused" in it;
\* other connection error; redirect limit; other request-library error; any
\* other exception.  success is False in each case.
C5_ErrorMapping ==
    \A i \in Calls :
        requests[i] # <<>> /\ raised[i] # NoExc =>
            /\ Done(i)
            /\ result[i] = Return(FALSE, C5_Expected(raised[i]))

\* a connect timeout, which is a connection error too, whose message names a
\* name-resolution failure
C5_Witness ==
    \E i \in Calls :
        /\ Done(i)
        /\ raised[i] = [cls |-> "ConnectTimeout", msg |-> EXC_MSG_DNS_WINDOWS]
        /\ result[i] = Return(FALSE, MSG_TIMEOUT)

\* C6: a request that has not completed within timeout ends as the timeout
\* failure: a call whose request ran longer than timeout returned success
\* False with an explanation containing "timeout".
C6_TimeoutBoundsRequest ==
    \A i \in Calls :
        Done(i) /\ requests[i] # <<>> /\ elapsed[i] > timeout[i] =>
            /\ result[i].success = FALSE
            /\ Contains(Lower(result[i].explanation), <<"t","i","m","e","o","u","t">>)

\* C7: at most one request attempt per call: one GET with redirect-following
\* when validation passes, none when it fails, and none after the attempt
\* has failed.
C7_SingleAttempt ==
    \A i \in Calls :
        /\ Len(requests[i]) <= 1
        /\ \A k \in 1..Len(requests[i]) :
              requests[i][k].method = "GET" /\ requests[i][k].allow_redirects
        /\ Done(i) => Len(requests[i]) = IF ValidationPasses(url[i]) THEN 1 ELSE 0

\* a call whose only attempt timed out while reading
C7_Witness ==
    \E i \in Calls :
        /\ Done(i)
        /\ raised[i].cls = "ReadTimeout"
        /\ result[i].success = FALSE
        /\ Len(requests[i]) = 1

\* C8: the request carries the browser User-Agent iff use_browser_agent is
\* True (with False check_url sets no User-Agent and the client default is
\* sent); the flag changes nothing else: validation gives the same result for
\* both values, and so does the whole call against a server that ignores the
\* identity; against a server that answers 403 to a non-browser identity and
\* 200 otherwise the result is (False, "HTTP 403 error") without the flag and
\* success with it.
C8_BrowserAgent ==
    \A i \in Calls :
        /\ \A k \in 1..Len(requests[i]) :
              /\ (<<"User-Agent", BROWSER_UA>> \in requests[i][k].headers) <=> use_browser_agent[i]
              /\ ~use_browser_agent[i] =>
                    /\ requests[i][k].headers = {}
                    /\ UserAgentOf(requests[i][k]) = CLIENT_DEFAULT_UA
        /\ \A j \in Calls :
              /\ /\ url[i] = url[j] /\ pc[i] # "validate" /\ pc[j] # "validate"
                 => (requests[i] = <<>> /\ Done(i)) = (requests[j] = <<>> /\ Done(j))
              /\ /\ url[i] = url[j] /\ timeout[i] = timeout[j] /\ server[i] = server[j]
                 /\ Done(i) /\ Done(j)
                 /\ (~server[i].blocks_bots \/ requests[i] = <<>>)
                 => result[i] = result[j]
        /\ Done(i) /\ requests[i] # <<>> /\ server[i] = BOT_BLOCKING =>
              result[i] = IF use_browser_agent[i]
                          THEN Return(TRUE, MSG_ACCESSIBLE)
                          ELSE Return(FALSE, <<"H","T","T","P"," ","4","0","3"," ","e","r","r","o","r">>)

\* the same URL checked without and with the flag against the bot-blocking
\* server
C8_Witness ==
    \E i, j \in Calls :
        /\ Done(i) /\ Done(j)
        /\ url[i] = url[j]
        /\ server[i] = BOT_BLOCKING /\ server[j] = BOT_BLOCKING
        /\ ~use_browser_agent[i] /\ use_browser_agent[j]
        /\ result[i] = Return(FALSE, <<"H","T","T","P"," ","4","0","3"," ","e","r","r","o","r">>)
        /\ result[j].success

\* the result of a call made on its own: the composition of the steps of
\* check_url on the arguments and the environment of the call
C9_ClientOutcome(t, srv, req) ==
    IF srv.error # NoExc THEN HandleRequestException(srv.error)
    ELSE IF ~srv.accepts
    THEN HandleRequestException([cls |-> "ConnectTimeout", msg |-> EXC_MSG_CONNECT_TIMEOUT])
    ELSE IF \E k \in 1..Len(srv.gaps) : srv.gaps[k] >= t
    THEN HandleRequestException([cls |-> "ReadTimeout", msg |-> EXC_MSG_READ_TIMEOUT])
    ELSE ClassifyResponse(ResponseOf(srv, req))

C9_Alone(u, t, f, srv) ==
    IF ~ValidateUrl(u).passed THEN ValidateUrl(u).result
    ELSE C9_ClientOutcome(t, srv,
             [method |-> "GET", url |-> u, timeout |-> t, allow_redirects |-> TRUE,
              headers |-> BuildHeaders(f)])

C9_Independent ==
    \A i \in Calls :
        Done(i) => result[i] = C9_Alone(url[i], timeout[i], use_browser_agent[i], server[i])

\* C9 as stated: calls share no state, each gets the result it would get run
\* alone, and two calls with the same URL against a server whose behaviour
\* does not change yield the same success flag.
C9_SameUrlSameSuccess ==
    /\ C9_Independent
    /\ \A i, j \in Calls :
          Done(i) /\ Done(j) /\ url[i] = url[j] /\ server[i] = server[j] =>
              result[i].success = result[j].success

\* C9, amended: calls share no state, each gets the result it would get run
\* alone, and two calls with the same URL, timeout and use_browser_agent
\* against a server whose behaviour does not change yield the same success
\* flag.
C9_SameArgumentsSameSuccess ==
    /\ C9_Independent
    /\ \A i, j \in Calls :
          /\ Done(i) /\ Done(j) /\ url[i] = url[j] /\ server[i] = server[j]
          /\ timeout[i] = timeout[j] /\ use_browser_agent[i] = use_browser_agent[j]
          => result[i].success = result[j].success

\* two calls with the same arguments against the same server, both finished
\* with the same result
C9_Witness ==
    \E i, j \in Calls :
        /\ i # j
        /\ Done(i) /\ Done(j)
        /\ url[i] = url[j] /\ server[i] = ONE_SECOND_LATE /\ server[j] = ONE_SECOND_LATE
        /\ timeout[i] = MaxTimeout /\ timeout[j] = MaxTimeout
        /\ use_browser_agent[i] = use_browser_agent[j]
        /\ requests[i] # <<>>
        /\ result[i] = Return(FALSE, MSG_404)
        /\ result[j] = result[i]

\* C10: validation comes first: no request is issued before all syntax checks
\* have passed, a call that returns an "Invalid URL ..." result has issued no
\* request, and every request issued is for a URL with a scheme in {http,
\* https} and a non-empty netloc.
C10_ValidationBeforeNetwork ==
    \A i \in Calls :
        /\ pc[i] \in {"validate", "headers"} => requests[i] = <<>>
        /\ Done(i) /\ StartsWith(result[i].explanation, <<"I","n","v","a","l","i","d"," ","U","R","L">>) => requests[i] = <<>>
        /\ \A k \in 1..Len(requests[i]) : ValidationPasses(requests[i][k].url)
        /\ Len(requests[i]) > 0 => ValidationPasses(url[i])

\* a request issued for a URL whose scheme is written in upper case
C10_Witness ==
    \E i \in Calls :
        /\ url[i] = <<"H","T","T","P",":","/","/","a">>
        /\ Len(requests[i]) = 1
        /\ requests[i][1].url = url[i]

=============================================================================
